---- MODULE Spec2Model ----
(***************************************************************************)
(* Model of the Salesforce MCP server (exon-sf-mcp):                       *)
(*   - executeSfCommand, the adapter that runs one external command and    *)
(*     classifies its output (also inlined in src/index.ts)                *)
(*   - the manifest tools (registerManifestTools)                          *)
(*   - the temp-file based Apex tools (registerApexTools), run concurrently*)
(*                                                                         *)
(* Texts are sequences of string fragments; the concatenation of the       *)
(* fragments is the text.  No fragment is empty, so a text is the empty    *)
(* string exactly when the sequence is empty.                              *)
(***************************************************************************)
EXTENDS Integers, Sequences, FiniteSets, TLC

VARIABLES
    callPc,       \* executeSfCommand: "idle" | "running" | "settled"
    execCalls,    \* number of exec() launches made by the call
    proc,         \* the external process: state, and what exec handed to the callback
    settleCalls,  \* resolve/reject invocations made by the callback, in order
    files,        \* manifest tools: path -> XML document or NoFile
    mreq,         \* manifest tools: the request being served
    mres,         \* manifest tools: outcome of the last request
    parsedXml,    \* manifest tools: types of the parsed document, as parsed and at the end
    modified,     \* filterLargeManifest: its modified flag
    summary,      \* getManifestSummary: the summary items
    log,          \* manifest tools: execSync and writeFileSync calls made, in order
    inherited,    \* manifest tools: what the failed command wrote to the inherited stderr
    fs,           \* apex tools: path -> content, for every file and directory that exists
    inv,          \* apex tools: per invocation, its input, position and external process
    cwd           \* apex tools: the working directory of the server process

vars == <<callPc, execCalls, proc, settleCalls, files, mreq, mres, parsedXml, modified,
         summary, log, inherited, fs, inv, cwd>>

execVars == <<callPc, execCalls, proc, settleCalls>>
manifestVars == <<files, mreq, mres, parsedXml, modified, summary, log, inherited>>
apexVars == <<fs, inv, cwd>>

----------------------------------------------------------------------------
(* Bounds *)

MaxErrLen == 2      \* fragments of error-channel text
MaxOutLen == 2      \* fragments of standard-output text
MaxTypes == 2       \* <types> elements of a manifest
MaxMembers == 3     \* <members> elements of one type
MaxLargeMembers == 5 \* <members> elements of one type of a generated manifest
NumInvocations == 2 \* tool invocations in flight at the same time

----------------------------------------------------------------------------
(* Texts and JSON *)

WS == " "
EmptyObject == "{}"
MsgObject == "{\"message\":\"INVALID_SESSION_ID\"}"
EmptyMsgObject == "{\"message\":\"\"}"
StrLiteral == "\"ok\""
NullLiteral == "null"
Plain == "Done."

Fragments == {WS, EmptyObject, MsgObject, EmptyMsgObject, StrLiteral, NullLiteral, Plain}

EmptyText == << >>

SeqsUpTo(S, n) == UNION {[1..k -> S] : k \in 0..n}

\* JavaScript truthiness of a string
Truthy(text) == Len(text) > 0

RECURSIVE DropLeadingWs(_)
DropLeadingWs(text) ==
    IF text # << >> /\ Head(text) = WS THEN DropLeadingWs(Tail(text)) ELSE text

RECURSIVE DropTrailingWs(_)
DropTrailingWs(text) ==
    IF text # << >> /\ text[Len(text)] = WS
    THEN DropTrailingWs(SubSeq(text, 1, Len(text) - 1))
    ELSE text

\* String.prototype.trim
Trim(text) == DropTrailingWs(DropLeadingWs(text))

\* JSON values: null, a string, or an object that may carry a message member
JsonNull == [t |-> "null", str |-> EmptyText, hasMessage |-> FALSE, message |-> EmptyText]
JsonString(s) == [t |-> "string", str |-> s, hasMessage |-> FALSE, message |-> EmptyText]
JsonObject(has, m) == [t |-> "object", str |-> EmptyText, hasMessage |-> has, message |-> m]

\* the JSON grammar allows whitespace around the one value of a document
JsonTokens(text) == SelectSeq(text, LAMBDA f : f # WS)

\* JSON.parse: ok = FALSE stands for the SyntaxError it throws (no value, text
\* that is not JSON, or anything after the first value)
JSONParse(text) ==
    LET toks == JsonTokens(text) IN
    IF toks = <<StrLiteral>> THEN [ok |-> TRUE, value |-> JsonString(<<"ok">>)]
    ELSE IF toks = <<NullLiteral>> THEN [ok |-> TRUE, value |-> JsonNull]
    ELSE IF toks = <<EmptyObject>> THEN [ok |-> TRUE, value |-> JsonObject(FALSE, EmptyText)]
    ELSE IF toks = <<MsgObject>>
        THEN [ok |-> TRUE, value |-> JsonObject(TRUE, <<"INVALID_SESSION_ID">>)]
    ELSE IF toks = <<EmptyMsgObject>>
        THEN [ok |-> TRUE, value |-> JsonObject(TRUE, EmptyText)]
    ELSE [ok |-> FALSE, value |-> JsonNull]

----------------------------------------------------------------------------
(* executeSfCommand *)

NoOutcome == [kind |-> "None", payload |-> JsonNull, message |-> EmptyText]
Success(v) == [kind |-> "Success", payload |-> v, message |-> EmptyText]
Failure(m) == [kind |-> "Failure", payload |-> JsonNull, message |-> m]

\* the error argument exec passes to its callback
NoError == [present |-> FALSE, message |-> EmptyText]
\* non-zero exit: Node builds `Command failed: ${cmd}\n${stderr}`
ExitError(stderr) == [present |-> TRUE, message |-> <<"Command failed: sf\n">> \o stderr]
\* the shell could not be spawned: nothing ran, nothing was written
SpawnError == [present |-> TRUE, message |-> <<"spawn /bin/sh ENOENT">>]

\* try { sfError = JSON.parse(stderr); reject(new Error(sfError.message || stderr)) }
\* thrown = TRUE when the try block throws (SyntaxError, or TypeError on null.message)
StructuredError(stderr) ==
    LET p == JSONParse(stderr) IN
    IF ~p.ok \/ p.value.t = "null"
    THEN [thrown |-> TRUE, message |-> EmptyText]
    ELSE [thrown |-> FALSE,
          message |-> IF p.value.hasMessage /\ Truthy(p.value.message)
                      THEN p.value.message ELSE stderr]

\* mutant: the structured message is never looked at
ErrorBranch_AlwaysRejectsError(error, stderr) == <<Failure(error.message)>>

\* mutant: the catch block rejects with the raw error text, as rule 2 does
ErrorBranch_CatchRejectsStderr(error, stderr) ==
    LET s == StructuredError(stderr) IN
    IF s.thrown THEN <<Failure(stderr)>> ELSE <<Failure(s.message)>>

\* if (error) { try {...} catch (e) { return reject(error) } }
ErrorBranch(error, stderr) ==
    LET s == StructuredError(stderr) IN
    IF s.thrown THEN <<Failure(error.message)>> ELSE <<Failure(s.message)>>

\* mutant: the negation is lost, `if (stderr && stdout)`
StderrOnlyGuard_LostNegation(stdout, stderr) == Truthy(stderr) /\ Truthy(stdout)

\* mutant: any error-channel text is a failure, `if (stderr)`
StderrOnlyGuard_IgnoresStdout(stdout, stderr) == Truthy(stderr)

\* if (stderr && !stdout)
StderrOnlyGuard(stdout, stderr) == Truthy(stderr) /\ ~Truthy(stdout)

\* { try {...} catch (e) { return reject(new Error(stderr)) } }
StderrOnlyBranch(stderr) ==
    LET s == StructuredError(stderr) IN
    IF s.thrown THEN <<Failure(stderr)>> ELSE <<Failure(s.message)>>

\* mutant: unparseable standard output is reported as a parse failure
StdoutBranch_RejectsPlainText(stdout) ==
    LET p == JSONParse(stdout) IN
    IF p.ok THEN <<Success(p.value)>>
    ELSE <<Failure(<<"Unexpected token">>)>>

\* try { resolve(JSON.parse(stdout)) } catch { resolve({ message: stdout.trim() }) }
StdoutBranch(stdout) ==
    LET p == JSONParse(stdout) IN
    IF p.ok THEN <<Success(p.value)>>
    ELSE <<Success(JsonObject(TRUE, Trim(stdout)))>>

\* mutant: the error branch rejects without returning and falls through
executeSfCommand_MissingReturn(error, stdout, stderr) ==
    (IF error.present THEN ErrorBranch(error, stderr) ELSE << >>)
        \o (IF StderrOnlyGuard(stdout, stderr) THEN StderrOnlyBranch(stderr)
            ELSE StdoutBranch(stdout))

\* the callback handed to exec: the resolve/reject calls it makes, in order
executeSfCommand(error, stdout, stderr) ==
    IF error.present THEN ErrorBranch(error, stderr)
    ELSE IF StderrOnlyGuard(stdout, stderr) THEN StderrOnlyBranch(stderr)
    ELSE StdoutBranch(stdout)

\* a promise keeps the first settlement; later resolve/reject calls are ignored
PromiseOutcome(calls) == IF calls = << >> THEN NoOutcome ELSE calls[1]

IdleProc == [state |-> "none", error |-> NoError, stdout |-> EmptyText, stderr |-> EmptyText]

\* executeSfCommand(command): the promise executor calls exec(command, callback)
ExecLaunch ==
    /\ callPc = "idle"
    /\ callPc' = "running"
    /\ execCalls' = execCalls + 1
    /\ proc' = [proc EXCEPT !.state = "running"]
    /\ settleCalls' = << >>

\* exec invokes the callback once the child has closed (or could not be spawned)
ExecCallback(state, error, stdout, stderr) ==
    /\ proc' = [state |-> state, error |-> error, stdout |-> stdout, stderr |-> stderr]
    /\ settleCalls' = executeSfCommand(error, stdout, stderr)
    /\ callPc' = "settled"
    /\ UNCHANGED execCalls

ProcessRunning == callPc = "running" /\ proc.state = "running"

ExecExitZero ==
    /\ ProcessRunning
    /\ \E out \in SeqsUpTo(Fragments, MaxOutLen), err \in SeqsUpTo(Fragments, MaxErrLen) :
          ExecCallback("exited", NoError, out, err)

ExecExitNonZero ==
    /\ ProcessRunning
    /\ \E out \in SeqsUpTo(Fragments, MaxOutLen), err \in SeqsUpTo(Fragments, MaxErrLen) :
          ExecCallback("exited", ExitError(err), out, err)

ExecSpawnFailure ==
    /\ ProcessRunning
    /\ ExecCallback("launchFailed", SpawnError, EmptyText, EmptyText)

----------------------------------------------------------------------------
(* Manifest documents (registerManifestTools)                              *)
(*                                                                         *)
(* A package.xml is modelled as its element tree, up to the order of       *)
(* differently named siblings: the root element name, the <types>          *)
(* elements in document order (each with the texts of its <name> and       *)
(* <members> children, in order) and the texts of the <version> elements.  *)

TypeNames == {"ApexClass", "CustomObject"}
\* member names are distinct within a type: a member list is a run of these
MemberNames == <<"A", "B", "C", "D", "E", "F", "G">>
MemberLists == {SubSeq(MemberNames, 1, n) : n \in 0..MaxMembers}
Undefined == "undefined"

NoFile == [kind |-> "none", root |-> "", types |-> << >>, version |-> << >>]
Malformed == [kind |-> "malformed", root |-> "", types |-> << >>, version |-> << >>]
XmlDoc(root, types, version) == [kind |-> "xml", root |-> root, types |-> types, version |-> version]

XmlTypes ==
    [name : {<< >>} \cup {<<n>> : n \in TypeNames}, members : MemberLists]

DefaultMaxItemsPerType == 500

\* a type with one member more than the default quota (names repeat in a cycle)
OverQuotaDoc ==
    XmlDoc("Package",
           <<[name |-> <<"ApexClass">>,
              members |-> [i \in 1..(DefaultMaxItemsPerType + 1) |->
                              MemberNames[((i - 1) % Len(MemberNames)) + 1]]]>>,
           <<"59.0">>)

\* the manifests a sf CLI run (or a user) may have left on disk
SourceDocs ==
    {XmlDoc("Package", ts, v) : ts \in SeqsUpTo(XmlTypes, MaxTypes), v \in {<< >>, <<"59.0">>}}
        \cup {XmlDoc("Other", << >>, <<"59.0">>), Malformed, OverQuotaDoc}

\* xml2js parseStringPromise with default options: every child element becomes
\* an array under its tag; a tag without elements is an absent key (undefined),
\* written here as the empty sequence.  threw = TRUE: the promise rejected.
parseStringPromise(content) ==
    IF content.kind # "xml"
    THEN [threw |-> TRUE, hasPackage |-> FALSE, types |-> << >>, version |-> << >>]
    ELSE [threw |-> FALSE,
          hasPackage |-> content.root = "Package",
          types |-> IF content.root = "Package" THEN content.types ELSE << >>,
          version |-> IF content.root = "Package" THEN content.version ELSE << >>]

\* xml2js Builder.buildObject({ Package: { $, types, version } }): one element per
\* array entry; an undefined value is rendered as one empty element
buildObject(types, version) ==
    XmlDoc("Package", types, IF version = << >> THEN <<"">> ELSE version)

Min(a, b) == IF a < b THEN a ELSE b
Max(a, b) == IF a > b THEN a ELSE b

\* Array.prototype.slice(0, end), negative end counted from the back
Slice0(arr, end) ==
    LET n == Len(arr)
        e == IF end < 0 THEN Max(n + end, 0) ELSE Min(end, n)
    IN SubSeq(arr, 1, e)

\* Array.prototype.includes
Includes(arr, x) == \E i \in DOMAIN arr : arr[i] = x

RECURSIVE SumSeq(_)
SumSeq(arr) == IF arr = << >> THEN 0 ELSE Head(arr) + SumSeq(Tail(arr))

\* type.name?.[0]
TypeName(type) == IF type.name = << >> THEN Undefined ELSE type.name[1]

\* mutant: entries that do not match are emptied instead of dropped
FilterByName_EmptiesUnmatched(types, metadataTypes) ==
    [i \in DOMAIN types |->
        IF Includes(metadataTypes, TypeName(types[i])) THEN types[i]
        ELSE [types[i] EXCEPT !.members = << >>]]

\* .filter(type => metadataTypes.includes(type.name?.[0]))
FilterByName(types, metadataTypes) ==
    SelectSeq(types, LAMBDA t : Includes(metadataTypes, TypeName(t)))

\* mutant: keeps the last members instead of the first, slice(-max)
LimitMembers_KeepsTail(type, maxItemsPerType) ==
    IF type.members # << >> /\ Len(type.members) > maxItemsPerType
    THEN [type EXCEPT !.members =
            SubSeq(type.members, Len(type.members) - maxItemsPerType + 1, Len(type.members))]
    ELSE type

\* .map(type => type.members && type.members.length > max
\*               ? { ...type, members: type.members.slice(0, max) } : type)
LimitMembers(type, maxItemsPerType) ==
    IF type.members # << >> /\ Len(type.members) > maxItemsPerType
    THEN [type EXCEPT !.members = Slice0(type.members, maxItemsPerType)]
    ELSE type

filteredTypes(types, metadataTypes, maxItemsPerType) ==
    LET matching == FilterByName(types, metadataTypes) IN
    [i \in DOMAIN matching |-> LimitMembers(matching[i], maxItemsPerType)]

\* mutant: without maxItemsPerType the members are not limited
EffectiveMax_Unlimited(req) ==
    IF req.hasMax THEN req.maxItemsPerType ELSE DefaultMaxItemsPerType + DefaultMaxItemsPerType

\* const { ..., maxItemsPerType = 500 } = params
EffectiveMax(req) == IF req.hasMax THEN req.maxItemsPerType ELSE DefaultMaxItemsPerType

\* metadataTypes.join('-')
RECURSIVE Join(_, _)
Join(arr, sep) ==
    IF arr = << >> THEN << >>
    ELSE IF Len(arr) = 1 THEN <<arr[1]>>
    ELSE <<arr[1], sep>> \o Join(Tail(arr), sep)

\* path.replace('package.xml', replacement): first occurrence only
RECURSIVE ReplaceFirst(_, _, _)
ReplaceFirst(path, frag, replacement) ==
    IF path = << >> THEN << >>
    ELSE IF Head(path) = frag THEN replacement \o Tail(path)
    ELSE <<Head(path)>> \o ReplaceFirst(Tail(path), frag, replacement)

\* outputPath || manifestPath.replace('package.xml', `package-filtered-${...}.xml`)
FinalOutputPath(req) ==
    IF Truthy(req.outputPath) THEN req.outputPath
    ELSE ReplaceFirst(req.manifestPath, "package.xml",
                      <<"package-filtered-">> \o Join(req.metadataTypes, "-") \o <<".xml">>)

PackageXmlPath == <<"manifest/", "package.xml">>
OutXmlPath == <<"out.xml">>

\* existsSync / readFileSync over the modelled file system
ExistsSync(f, path) == path \in DOMAIN f
ReadFileSync(f, path) == IF path \in DOMAIN f THEN f[path] ELSE NoFile
WriteFileSync(f, path, content) == [p \in DOMAIN f \cup {path} |-> IF p = path THEN content ELSE f[p]]

NoRequest ==
    [tool |-> "none", manifestPath |-> << >>, metadataTypes |-> << >>,
     outputPath |-> << >>, hasMax |-> FALSE, maxItemsPerType |-> 0]

NoResult ==
    [status |-> "none", error |-> "", types |-> << >>, version |-> << >>,
     outPath |-> << >>, totalItems |-> 0, totalTypes |-> 0, message |-> << >>]

\* throw new Error(msg): error names the failure, message is error.message
ErrorResult(msg) == [NoResult EXCEPT !.status = "error", !.error = msg, !.message = <<msg>>]

\* the error execSync throws for a command run with stdio: 'inherit': stderr is
\* not captured, so the message is `Command failed: ${command}` and nothing else
ExecSyncError(command) ==
    [ErrorResult("Command failed") EXCEPT !.message = <<"Command failed: ">> \o command]

\* catch (error) { throw new Error(`${prefix}${error.message}`) }
Rethrow(prefix, res) ==
    IF res.status = "error" THEN [res EXCEPT !.message = <<prefix>> \o @] ELSE res

\* what a failing command may write to its error channel
Diagnostics == {<<Plain>>, <<MsgObject>>}

\* the text on the inherited error channel once the request is served
Inherited(res, m) == IF res.error = "Command failed" THEN m ELSE << >>

FilterRequests ==
    [tool : {"filterManifest"},
     manifestPath : {PackageXmlPath},
     metadataTypes : SeqsUpTo(TypeNames, 2),
     outputPath : {<< >>, OutXmlPath},
     hasMax : {TRUE},
     maxItemsPerType : {-1, 0, 1, 2}]
        \cup
    [tool : {"filterManifest"},
     manifestPath : {PackageXmlPath},
     metadataTypes : SeqsUpTo(TypeNames, 2),
     outputPath : {<< >>, OutXmlPath},
     hasMax : {FALSE},
     maxItemsPerType : {0}]

\* parsedXml.Package.types right after parsing (before) and when the handler
\* ends (after); NotParsed: the handler did not get to parse
NotParsed == [before |-> << >>, after |-> << >>]
Parsed(before, after) == [before |-> before, after |-> after]

\* the calls a handler makes that leave the process: commands run and files written
ExecSyncCall(command) == [call |-> "execSync", arg |-> command]
WriteFileSyncCall(path) == [call |-> "writeFileSync", arg |-> path]

\* mutant: an empty list of requested names is refused
filterManifest_RejectsEmptyNames(f, req) ==
    IF ~ExistsSync(f, req.manifestPath) \/ req.metadataTypes = << >>
    THEN [res |-> ErrorResult("Manifest file not found"), files |-> f,
          parsed |-> NotParsed, log |-> << >>]
    ELSE LET parsedXml_ == parseStringPromise(ReadFileSync(f, req.manifestPath)) IN
         IF parsedXml_.threw \/ ~parsedXml_.hasPackage \/ parsedXml_.types = << >>
         THEN [res |-> ErrorResult("Invalid package.xml format"), files |-> f,
               parsed |-> NotParsed, log |-> << >>]
         ELSE LET ft == filteredTypes(parsedXml_.types, req.metadataTypes, EffectiveMax(req))
                  out == FinalOutputPath(req)
              IN [res |-> [status |-> "ok", error |-> "", types |-> ft,
                           version |-> parsedXml_.version, outPath |-> out,
                           totalItems |-> SumSeq([i \in DOMAIN ft |-> Len(ft[i].members)]),
                           totalTypes |-> 0, message |-> << >>],
                  files |-> WriteFileSync(f, out, buildObject(ft, parsedXml_.version)),
                  parsed |-> Parsed(parsedXml_.types, parsedXml_.types),
                  log |-> <<WriteFileSyncCall(out)>>]

\* the handler of the filterManifest tool: result, file system afterwards, the
\* parsed document and the calls made
filterManifest(f, req) ==
    IF ~ExistsSync(f, req.manifestPath)
    THEN [res |-> ErrorResult("Manifest file not found"), files |-> f,
          parsed |-> NotParsed, log |-> << >>]
    ELSE LET parsedXml_ == parseStringPromise(ReadFileSync(f, req.manifestPath)) IN
         IF parsedXml_.threw
         THEN [res |-> ErrorResult("XML parse error"), files |-> f,
               parsed |-> NotParsed, log |-> << >>]
         ELSE IF ~parsedXml_.hasPackage \/ parsedXml_.types = << >>
         THEN [res |-> ErrorResult("Invalid package.xml format"), files |-> f,
               parsed |-> Parsed(parsedXml_.types, parsedXml_.types), log |-> << >>]
         ELSE LET ft == filteredTypes(parsedXml_.types, req.metadataTypes, EffectiveMax(req))
                  out == FinalOutputPath(req)
              IN [res |-> [status |-> "ok", error |-> "", types |-> ft,
                           version |-> parsedXml_.version, outPath |-> out,
                           totalItems |-> SumSeq([i \in DOMAIN ft |-> Len(ft[i].members)]),
                           totalTypes |-> 0, message |-> << >>],
                  files |-> WriteFileSync(f, out, buildObject(ft, parsedXml_.version)),
                  \* filteredXml is a new object: parsedXml is only read
                  parsed |-> Parsed(parsedXml_.types, parsedXml_.types),
                  log |-> <<WriteFileSyncCall(out)>>]

FilterManifest ==
    /\ mres.status = "none"
    /\ \E req \in FilterRequests :
          LET r == filterManifest(files, req) IN
          /\ mreq' = req
          /\ mres' = Rethrow("Failed to filter manifest: ", r.res)
          /\ inherited' = << >>
          /\ files' = r.files
          /\ parsedXml' = r.parsed
          /\ log' = r.log
          /\ UNCHANGED <<modified, summary>>

\* mutant: the count is taken from the samples
memberCount_OfSamples(type) ==
    IF type.members # << >> THEN Len(Slice0(type.members, 3)) ELSE 0

\* memberCount: type.members ? type.members.length : 0
memberCount(type) ==
    IF type.members # << >> THEN Len(type.members) ELSE 0

\* mutant: every member is shown
sampleMembers_Unbounded(type) ==
    IF type.members # << >> THEN type.members ELSE << >>

\* sampleMembers: type.members ? type.members.slice(0, 3) : []
sampleMembers(type) ==
    IF type.members # << >> THEN Slice0(type.members, 3) ELSE << >>

\* parsedXml.Package.types.map(type => ({ name, memberCount, sampleMembers }))
SummaryOf(types) ==
    [i \in DOMAIN types |->
        [name |-> TypeName(types[i]),
         memberCount |-> memberCount(types[i]),
         sampleMembers |-> sampleMembers(types[i])]]

Request(tool, manifestPath) ==
    [NoRequest EXCEPT !.tool = tool, !.manifestPath = manifestPath]

SummaryRequests == {Request("getManifestSummary", PackageXmlPath)}

\* mutant: the total adds up what the samples show
TotalItems_OfSamples(summary_) ==
    SumSeq([i \in DOMAIN summary_ |-> Len(summary_[i].sampleMembers)])

\* summary.reduce((sum, type) => sum + type.memberCount, 0)
TotalItems(summary_) ==
    SumSeq([i \in DOMAIN summary_ |-> summary_[i].memberCount])

\* mutant: a document without <types> is summarised as empty
getManifestSummary_SkipsFormatCheck(f, req) ==
    IF ~ExistsSync(f, req.manifestPath)
    THEN [res |-> ErrorResult("Manifest file not found"), summary |-> << >>, parsed |-> NotParsed]
    ELSE LET parsedXml_ == parseStringPromise(ReadFileSync(f, req.manifestPath))
             summary_ == SummaryOf(parsedXml_.types)
         IN [res |-> [NoResult EXCEPT !.status = "ok"],
             summary |-> summary_,
             parsed |-> Parsed(parsedXml_.types, parsedXml_.types)]

\* the handler of the getManifestSummary tool: result, summary items and the
\* parsed document; it writes no file and runs no command
getManifestSummary(f, req) ==
    IF ~ExistsSync(f, req.manifestPath)
    THEN [res |-> ErrorResult("Manifest file not found"), summary |-> << >>, parsed |-> NotParsed]
    ELSE LET parsedXml_ == parseStringPromise(ReadFileSync(f, req.manifestPath)) IN
         IF parsedXml_.threw
         THEN [res |-> ErrorResult("XML parse error"), summary |-> << >>, parsed |-> NotParsed]
         ELSE IF ~parsedXml_.hasPackage \/ parsedXml_.types = << >>
         THEN [res |-> ErrorResult("Invalid package.xml format"), summary |-> << >>,
               parsed |-> Parsed(parsedXml_.types, parsedXml_.types)]
         ELSE LET summary_ == SummaryOf(parsedXml_.types) IN
              [res |-> [NoResult EXCEPT
                          !.status = "ok",
                          !.totalItems = TotalItems(summary_),
                          \* `Total Metadata Types: ${summary.length}`
                          !.totalTypes = Len(summary_)],
               summary |-> summary_,
               parsed |-> Parsed(parsedXml_.types, parsedXml_.types)]

GetManifestSummary ==
    /\ mres.status = "none"
    /\ \E req \in SummaryRequests :
          LET r == getManifestSummary(files, req) IN
          /\ mreq' = req
          /\ mres' = Rethrow("Failed to get manifest summary: ", r.res)
          /\ inherited' = << >>
          /\ summary' = r.summary
          /\ parsedXml' = r.parsed
          /\ log' = << >>
          /\ UNCHANGED <<files, modified>>

SfdxProjectPath == <<"sfdx-project.json">>

\* JSON.stringify(projectConfig, null, 2): not a manifest
ProjectConfig == [kind |-> "json", root |-> "", types |-> << >>, version |-> <<"58.0">>]

\* `sf project retrieve start --manifest ${manifestPath}`
RetrieveCommand(manifestPath) == <<"sf project retrieve start --manifest ">> \o manifestPath

\* execSync returns when the command exits with status 0 and throws otherwise
ExecSyncOutcomes == {"returned", "threw"}

RetrieveRequests ==
    {Request("retrieveFilteredMetadata", path) : path \in {PackageXmlPath, OutXmlPath}}

\* mutant: the project file is written before the manifest is looked for
retrieveFilteredMetadata_WritesProjectFirst(f, req, outcome) ==
    LET f1 == IF ExistsSync(f, SfdxProjectPath) THEN f
              ELSE WriteFileSync(f, SfdxProjectPath, ProjectConfig)
    IN IF ~ExistsSync(f, req.manifestPath)
       THEN [res |-> ErrorResult("Manifest file not found"), files |-> f1,
             log |-> <<WriteFileSyncCall(SfdxProjectPath)>>]
       ELSE [res |-> IF outcome = "returned" THEN [NoResult EXCEPT !.status = "ok"]
                     ELSE ExecSyncError(RetrieveCommand(req.manifestPath)),
             files |-> f1,
             log |-> <<ExecSyncCall(RetrieveCommand(req.manifestPath))>>]

\* the handler of the retrieveFilteredMetadata tool; what the retrieve command
\* writes lies outside the manifest files and is not modelled
retrieveFilteredMetadata(f, req, outcome) ==
    IF ~ExistsSync(f, req.manifestPath)
    THEN [res |-> ErrorResult("Manifest file not found"), files |-> f, log |-> << >>]
    ELSE LET hasProject == ExistsSync(f, SfdxProjectPath)
             f1 == IF hasProject THEN f ELSE WriteFileSync(f, SfdxProjectPath, ProjectConfig)
             log1 == (IF hasProject THEN << >> ELSE <<WriteFileSyncCall(SfdxProjectPath)>>)
                        \o <<ExecSyncCall(RetrieveCommand(req.manifestPath))>>
         IN [res |-> IF outcome = "returned" THEN [NoResult EXCEPT !.status = "ok"]
                     ELSE ExecSyncError(RetrieveCommand(req.manifestPath)),
             files |-> f1,
             log |-> log1]

\* the retrieval may be asked for again once it has been served
RetrieveFilteredMetadata ==
    /\ mres.status = "none" \/ mreq.tool = "retrieveFilteredMetadata"
    /\ \E req \in RetrieveRequests, outcome \in ExecSyncOutcomes, m \in Diagnostics :
          LET r == retrieveFilteredMetadata(files, req, outcome) IN
          /\ mreq' = req
          /\ mres' = Rethrow("Failed to retrieve metadata: ", r.res)
          /\ inherited' = Inherited(r.res, m)
          /\ files' = r.files
          /\ log' = r.log
          /\ UNCHANGED <<parsedXml, modified, summary>>

\* what every handler that requires a manifest does to obtain one: parse the
\* text, then reject a document without Package or without Package.types
ManifestParse(content) ==
    LET parsedXml_ == parseStringPromise(content) IN
    [ok |-> ~parsedXml_.threw /\ parsedXml_.hasPackage /\ parsedXml_.types # << >>,
     types |-> parsedXml_.types,
     version |-> parsedXml_.version]

\* manifests of an org with many components, as `sf project generate manifest`
\* writes them: entries with up to MaxLargeMembers members
LargeTypes ==
    [name : {<< >>} \cup {<<n>> : n \in TypeNames},
     members : {SubSeq(MemberNames, 1, n) : n \in 0..MaxLargeMembers}]

LargeDocs ==
    {XmlDoc("Package", ts, v) : ts \in SeqsUpTo(LargeTypes, MaxTypes), v \in {<< >>, <<"59.0">>}}
        \cup {XmlDoc("Other", << >>, <<"59.0">>), Malformed}

\* builder.buildObject(parsedXml): the parsed object written back, whatever its root
buildParsedXml(content, parsedXml_, types) ==
    IF parsedXml_.hasPackage THEN XmlDoc("Package", types, parsedXml_.version) ELSE content

\* type.members && type.members.length > maxItemsPerType
ExceedsLimit(type, maxItemsPerType) ==
    type.members # << >> /\ Len(type.members) > maxItemsPerType

\* mutant: the flag is raised for every document that has entries
WasModified_Always(types, maxItemsPerType) == types # << >>

\* let modified = false; ... modified = true in the map callback
WasModified(types, maxItemsPerType) ==
    \E i \in DOMAIN types : ExceedsLimit(types[i], maxItemsPerType)

\* mutant: entries left without members are dropped from the rewritten manifest
filterLargeManifest_DropsEmptied(f, manifestPath, maxItemsPerType) ==
    LET content == ReadFileSync(f, manifestPath)
        parsedXml_ == parseStringPromise(content)
        limited == SelectSeq([i \in DOMAIN parsedXml_.types |->
                                 LimitMembers(parsedXml_.types[i], maxItemsPerType)],
                             LAMBDA t : t.members # << >>)
        modified_ == WasModified(parsedXml_.types, maxItemsPerType)
    IN IF parsedXml_.threw
       THEN [threw |-> TRUE, files |-> f, parsed |-> NotParsed, modified |-> FALSE, log |-> << >>]
       ELSE IF parsedXml_.hasPackage /\ parsedXml_.types # << >> /\ modified_
       THEN [threw |-> FALSE,
             files |-> WriteFileSync(f, manifestPath, buildParsedXml(content, parsedXml_, limited)),
             parsed |-> Parsed(parsedXml_.types, limited),
             modified |-> TRUE,
             log |-> <<WriteFileSyncCall(manifestPath)>>]
       ELSE [threw |-> FALSE, files |-> f,
             parsed |-> Parsed(parsedXml_.types, parsedXml_.types),
             modified |-> FALSE, log |-> << >>]

\* filterLargeManifest(manifestPath, maxItemsPerType): parsedXml.Package.types is
\* replaced by the limited entries and the manifest is rewritten in place
filterLargeManifest(f, manifestPath, maxItemsPerType) ==
    LET content == ReadFileSync(f, manifestPath)
        parsedXml_ == parseStringPromise(content)
    IN IF parsedXml_.threw
       THEN [threw |-> TRUE, files |-> f, parsed |-> NotParsed, modified |-> FALSE, log |-> << >>]
       ELSE IF parsedXml_.hasPackage /\ parsedXml_.types # << >>
       THEN LET limited == [i \in DOMAIN parsedXml_.types |->
                               LimitMembers(parsedXml_.types[i], maxItemsPerType)]
                modified_ == WasModified(parsedXml_.types, maxItemsPerType)
            IN [threw |-> FALSE,
                files |-> IF modified_
                          THEN WriteFileSync(f, manifestPath,
                                             buildParsedXml(content, parsedXml_, limited))
                          ELSE f,
                parsed |-> Parsed(parsedXml_.types, limited),
                modified |-> modified_,
                log |-> IF modified_ THEN <<WriteFileSyncCall(manifestPath)>> ELSE << >>]
       ELSE [threw |-> FALSE, files |-> f,
             parsed |-> Parsed(parsedXml_.types, parsedXml_.types),
             modified |-> FALSE, log |-> << >>]

DefaultMaxItems == 1000

\* const { ..., maxItems = 1000 } = params
EffectiveMaxItems(req) == IF req.hasMax THEN req.maxItemsPerType ELSE DefaultMaxItems

\* `sf project generate manifest --output-dir ${outputDir} --from-org ${orgAlias}`
GenerateCommand == <<"sf project generate manifest">>

\* what the generate command does before execSync returns or throws: it leaves
\* a manifest at package.xml (doc) or writes nothing (NoFile)
GenerateOutcomes ==
    {[exit |-> "threw", doc |-> NoFile]}
        \cup {[exit |-> "returned", doc |-> d] : d \in LargeDocs \cup {NoFile}}

AfterGenerate(f, outcome) ==
    IF outcome.doc = NoFile THEN f ELSE WriteFileSync(f, PackageXmlPath, outcome.doc)

\* the limit of the request is carried in maxItemsPerType (maxItems, maxClasses)
LimitRequests(tool) ==
    {[Request(tool, PackageXmlPath) EXCEPT !.hasMax = TRUE, !.maxItemsPerType = m] :
        m \in {-1, 0, 1, 3}}
        \cup {Request(tool, PackageXmlPath)}

\* the handler of the generateManifest tool
generateManifest(f, req, outcome) ==
    LET f1 == AfterGenerate(f, outcome)
        ran == <<ExecSyncCall(GenerateCommand)>>
    IN IF outcome.exit = "threw"
       THEN [res |-> ExecSyncError(GenerateCommand), files |-> f1,
             parsed |-> NotParsed, modified |-> FALSE, log |-> ran]
       ELSE IF ~ExistsSync(f1, PackageXmlPath)
       THEN [res |-> ErrorResult("Failed to generate package.xml file"), files |-> f1,
             parsed |-> NotParsed, modified |-> FALSE, log |-> ran]
       ELSE LET r == filterLargeManifest(f1, PackageXmlPath, EffectiveMaxItems(req)) IN
            [res |-> IF r.threw THEN ErrorResult("XML parse error")
                     ELSE [NoResult EXCEPT !.status = "ok",
                                           !.types = r.parsed.after,
                                           !.outPath = PackageXmlPath],
             files |-> r.files, parsed |-> r.parsed, modified |-> r.modified,
             log |-> ran \o r.log]

GenerateManifest ==
    /\ mres.status = "none"
    /\ \E req \in LimitRequests("generateManifest"), outcome \in GenerateOutcomes,
          m \in Diagnostics :
          LET r == generateManifest(files, req, outcome) IN
          /\ mreq' = req
          /\ mres' = Rethrow("Failed to generate manifest: ", r.res)
          /\ inherited' = Inherited(r.res, m)
          /\ files' = r.files
          /\ parsedXml' = r.parsed
          /\ modified' = r.modified
          /\ log' = r.log
          /\ UNCHANGED summary

DefaultMaxClasses == 100

\* const { ..., maxClasses = 100 } = params
EffectiveMaxClasses(req) == IF req.hasMax THEN req.maxItemsPerType ELSE DefaultMaxClasses

\* join(outputDir, "package-apex-limited.xml")
FilteredPath == <<"manifest/", "package-apex-limited.xml">>

\* parsedXml.Package.types.find(type => type.name?.[0] === 'ApexClass'): the
\* position of the first such entry, 0 when there is none
RECURSIVE FindApexType(_, _)
FindApexType(types, from) ==
    IF from > Len(types) THEN 0
    ELSE IF TypeName(types[from]) = "ApexClass" THEN from
    ELSE FindApexType(types, from + 1)

\* mutant: the entry found is left as parsed, the limit is not applied
LimitApexType_Untouched(types, maxClasses) == types

\* apexType.members = apexType.members.slice(0, maxClasses): the entry found is
\* changed in place, so these are the types of parsedXml afterwards
LimitApexType(types, maxClasses) ==
    LET at == FindApexType(types, 1) IN
    IF at # 0 /\ ExceedsLimit(types[at], maxClasses)
    THEN [types EXCEPT ![at].members = Slice0(types[at].members, maxClasses)]
    ELSE types

\* mutant: a failed generate command is run once more, then the workflow goes on
retrieveApexClasses_RetriesGenerate(f, req, generated, retrieved) ==
    LET f1 == AfterGenerate(f, generated)
        ran == IF generated.exit = "threw"
               THEN <<ExecSyncCall(GenerateCommand), ExecSyncCall(GenerateCommand)>>
               ELSE <<ExecSyncCall(GenerateCommand)>>
        content == ReadFileSync(f1, PackageXmlPath)
        parsedXml_ == parseStringPromise(content)
    IN IF ~ExistsSync(f1, PackageXmlPath) \/ parsedXml_.threw
       THEN [res |-> IF generated.exit = "threw" THEN ExecSyncError(GenerateCommand)
                     ELSE ErrorResult("XML parse error"),
             files |-> f1, parsed |-> NotParsed, log |-> ran]
       ELSE LET limited == IF parsedXml_.hasPackage /\ parsedXml_.types # << >>
                           THEN LimitApexType(parsedXml_.types, EffectiveMaxClasses(req))
                           ELSE parsedXml_.types
            IN [res |-> IF generated.exit = "threw" \/ retrieved = "threw"
                        THEN ExecSyncError(RetrieveCommand(FilteredPath))
                        ELSE [NoResult EXCEPT !.status = "ok", !.types = limited,
                                              !.version = parsedXml_.version,
                                              !.outPath = FilteredPath],
                files |-> WriteFileSync(f1, FilteredPath,
                                        buildParsedXml(content, parsedXml_, limited)),
                parsed |-> Parsed(parsedXml_.types, limited),
                log |-> ran \o <<WriteFileSyncCall(FilteredPath),
                                 ExecSyncCall(RetrieveCommand(FilteredPath))>>]

\* the handler of the retrieveApexClasses tool
retrieveApexClasses(f, req, generated, retrieved) ==
    LET f1 == AfterGenerate(f, generated)
        ran == <<ExecSyncCall(GenerateCommand)>>
        content == ReadFileSync(f1, PackageXmlPath)
        parsedXml_ == parseStringPromise(content)
    IN IF generated.exit = "threw"
       THEN [res |-> ExecSyncError(GenerateCommand), files |-> f1,
             parsed |-> NotParsed, log |-> ran]
       ELSE IF ~ExistsSync(f1, PackageXmlPath)
       THEN [res |-> ErrorResult("ENOENT: no such file or directory"), files |-> f1,
             parsed |-> NotParsed, log |-> ran]
       ELSE IF parsedXml_.threw
       THEN [res |-> ErrorResult("XML parse error"), files |-> f1,
             parsed |-> NotParsed, log |-> ran]
       ELSE LET limited == IF parsedXml_.hasPackage /\ parsedXml_.types # << >>
                           THEN LimitApexType(parsedXml_.types, EffectiveMaxClasses(req))
                           ELSE parsedXml_.types
                log1 == ran \o <<WriteFileSyncCall(FilteredPath),
                                  ExecSyncCall(RetrieveCommand(FilteredPath))>>
            IN [res |-> IF retrieved = "returned"
                        THEN [NoResult EXCEPT !.status = "ok",
                                              !.types = limited,
                                              !.version = parsedXml_.version,
                                              !.outPath = FilteredPath]
                        ELSE ExecSyncError(RetrieveCommand(FilteredPath)),
                files |-> WriteFileSync(f1, FilteredPath,
                                        buildParsedXml(content, parsedXml_, limited)),
                parsed |-> Parsed(parsedXml_.types, limited),
                log |-> log1]

RetrieveApexClasses ==
    /\ mres.status = "none"
    /\ \E req \in LimitRequests("retrieveApexClasses"), generated \in GenerateOutcomes,
          retrieved \in ExecSyncOutcomes, m \in Diagnostics :
          LET r == retrieveApexClasses(files, req, generated, retrieved) IN
          /\ mreq' = req
          /\ mres' = Rethrow("Failed to retrieve Apex classes: ", r.res)
          /\ inherited' = Inherited(r.res, m)
          /\ files' = r.files
          /\ parsedXml' = r.parsed
          /\ log' = r.log
          /\ UNCHANGED <<modified, summary>>

----------------------------------------------------------------------------
(* Apex tools (registerApexTools), fixed temp paths                        *)

(*                                                                         *)
(* The handlers are async functions: every await is a point where another  *)
(* invocation may run.  Each action below is the effect of one awaited     *)
(* operation together with the synchronous code that follows it.           *)

Invocations == 1..NumInvocations

ApexTools == {"execute_anonymous_apex", "create_apex_class"}
ClassNames == {"Foo", "Bar"}
Dir == <<"<dir>">>
MetaContent == <<"<ApexClass>">>

\* path.join(__dirname, 'temp_apex_to_run.apex')
tempFilePath == <<"temp_apex_to_run.apex">>
\* path.join(__dirname, 'temp_deploy')
tempDir == <<"temp_deploy/">>
\* path.join(tempDir, 'classes')
classesDir == tempDir \o <<"classes/">>
\* path.join(classesDir, `${className}.cls`)
classPath(className) == classesDir \o <<className, ".cls">>
\* path.join(classesDir, `${className}.cls-meta.xml`)
metaPath(className) == classesDir \o <<className, ".cls-meta.xml">>

\* the apexCode / classContent of invocation i: every invocation brings its own
InputOf(i) == <<"input", i>>

IsUnder(path, dir) == Len(dir) <= Len(path) /\ SubSeq(path, 1, Len(dir)) = dir

\* fs.writeFile: creates or replaces the file
WriteFile(f, path, content) ==
    [p \in DOMAIN f \cup {path} |-> IF p = path THEN content ELSE f[p]]

\* fs.mkdir(classesDir, { recursive: true })
MkdirClasses(f) ==
    [p \in DOMAIN f \cup {tempDir, classesDir} |-> IF p \in {tempDir, classesDir} THEN Dir ELSE f[p]]

\* fs.rm(dir, { recursive: true, force: true }) and fs.unlink(path)
Remove(f, dir) == [p \in {q \in DOMAIN f : ~IsUnder(q, dir)} |-> f[p]]

\* the files the external command is pointed at, as it finds them
\* (--file tempFilePath, or every file below --source-dir tempDir)
CommandInput(f, tool) ==
    IF tool = "execute_anonymous_apex"
    THEN {<<p, f[p]>> : p \in {q \in DOMAIN f : q = tempFilePath}}
    ELSE {<<p, f[p]>> : p \in {q \in DOMAIN f : IsUnder(q, tempDir) /\ f[q] # Dir}}

NewInvocation(tool, className) ==
    [tool |-> tool, className |-> className, pc |-> "start",
     process |-> "none", hasRead |-> FALSE, seen |-> {},
     outcome |-> "none", result |-> "none"]

\* execute_anonymous_apex: await fs.writeFile(tempFilePath, apexCode)
WriteTempFile(i) ==
    /\ inv[i].tool = "execute_anonymous_apex" /\ inv[i].pc = "start"
    /\ fs' = WriteFile(fs, tempFilePath, InputOf(i))
    /\ inv' = [inv EXCEPT ![i].pc = "written"]

\* create_apex_class: await fs.mkdir(classesDir, { recursive: true })
MakeClassesDir(i) ==
    /\ inv[i].tool = "create_apex_class" /\ inv[i].pc = "start"
    /\ fs' = MkdirClasses(fs)
    /\ inv' = [inv EXCEPT ![i].pc = "mkdir"]

\* create_apex_class: await fs.writeFile(classPath, classContent)
WriteClassFile(i) ==
    /\ inv[i].tool = "create_apex_class" /\ inv[i].pc = "mkdir"
    /\ classesDir \in DOMAIN fs
    /\ fs' = WriteFile(fs, classPath(inv[i].className), InputOf(i))
    /\ inv' = [inv EXCEPT ![i].pc = "classWritten"]

\* create_apex_class: await fs.writeFile(metaPath, metaContent)
WriteMetaFile(i) ==
    /\ inv[i].tool = "create_apex_class" /\ inv[i].pc = "classWritten"
    /\ classesDir \in DOMAIN fs
    /\ fs' = WriteFile(fs, metaPath(inv[i].className), MetaContent)
    /\ inv' = [inv EXCEPT ![i].pc = "written"]

\* create_apex_class: a writeFile finds the directory gone (ENOENT); the
\* writes are outside the try block, so the handler rejects without cleanup
WriteFails(i) ==
    /\ inv[i].tool = "create_apex_class" /\ inv[i].pc \in {"mkdir", "classWritten"}
    /\ classesDir \notin DOMAIN fs
    /\ inv' = [inv EXCEPT ![i].pc = "done", ![i].result = "threw"]
    /\ UNCHANGED fs

\* try { const result = await executeSfCommand(sfCommand) ...
LaunchCommand(i) ==
    /\ inv[i].pc = "written"
    /\ inv' = [inv EXCEPT ![i].pc = "running", ![i].process = "running"]
    /\ UNCHANGED fs

\* the external command reads the files it was pointed at
CommandReads(i) ==
    /\ inv[i].process = "running" /\ ~inv[i].hasRead
    /\ inv' = [inv EXCEPT ![i].hasRead = TRUE, ![i].seen = CommandInput(fs, inv[i].tool)]
    /\ UNCHANGED fs

\* the external command ends and executeSfCommand settles
CommandEnds(i, outcome) ==
    /\ inv[i].process = "running"
    /\ inv' = [inv EXCEPT ![i].process = "exited", ![i].outcome = outcome, ![i].pc = "finally"]
    /\ UNCHANGED fs

CommandSucceeds(i) == inv[i].hasRead /\ CommandEnds(i, "Success")
CommandFails(i) == CommandEnds(i, "Failure")

\* execute_anonymous_apex: finally { await fs.unlink(tempFilePath) }
UnlinkTempFile(i) ==
    /\ inv[i].tool = "execute_anonymous_apex" /\ inv[i].pc = "finally"
    /\ tempFilePath \in DOMAIN fs
    /\ fs' = Remove(fs, tempFilePath)
    /\ inv' = [inv EXCEPT ![i].pc = "done",
                          ![i].result = IF inv[i].outcome = "Success" THEN "returned" ELSE "threw"]

\* execute_anonymous_apex: unlink of a file that is gone throws ENOENT
UnlinkFails(i) ==
    /\ inv[i].tool = "execute_anonymous_apex" /\ inv[i].pc = "finally"
    /\ tempFilePath \notin DOMAIN fs
    /\ inv' = [inv EXCEPT ![i].pc = "done", ![i].result = "threw"]
    /\ UNCHANGED fs

\* create_apex_class: finally { await fs.rm(tempDir, { recursive: true, force: true }) }
RemoveTempDir(i) ==
    /\ inv[i].tool = "create_apex_class" /\ inv[i].pc = "finally"
    /\ fs' = Remove(fs, tempDir)
    /\ inv' = [inv EXCEPT ![i].pc = "done",
                          ![i].result = IF inv[i].outcome = "Success" THEN "returned" ELSE "threw"]

----------------------------------------------------------------------------
(* Apex tools (registerApexTools), one temporary project per invocation    *)

(*                                                                         *)
(* The later revision of create_apex_class, update_apex_class,             *)
(* delete_apex_class and create_test_class builds a project in a directory *)
(* named by randomUUID(), changes the process working directory into it    *)
(* for the deploy command and changes back in its finally block.  The      *)
(* working directory belongs to the process: all invocations share it.     *)

ChdirTools == {"create_apex_class", "update_apex_class", "delete_apex_class", "create_test_class"}

\* the working directory the server was started in
ServerCwd == <<"<cwd>/">>

File == <<"<file>">>

\* path.join(__dirname, `temp_sfdx_project_${randomUUID()}`): a name no other
\* invocation has
tempProjectDir(i) == <<"temp_sfdx_project_", ToString(i), "/">>

\* classesDir, or manifestDir for delete_apex_class
sourceDir(i, tool) ==
    tempProjectDir(i) \o (IF tool = "delete_apex_class"
                           THEN <<"manifest/">>
                           ELSE <<"force-app/main/default/classes/">>)

\* the files the handler writes, in the order of its awaits
ProjectFiles(i, tool) ==
    <<tempProjectDir(i) \o <<"sfdx-project.json">>>> \o
    (IF tool = "delete_apex_class"
     THEN <<sourceDir(i, tool) \o <<"destructiveChanges.xml">>,
            sourceDir(i, tool) \o <<"package.xml">>>>
     ELSE <<sourceDir(i, tool) \o <<"className", ".cls">>,
            sourceDir(i, tool) \o <<"className", ".cls-meta.xml">>>>)

\* fs.mkdir(dir, { recursive: true }) below the project directory
MkdirProject(f, i, tool) ==
    LET made == {tempProjectDir(i), sourceDir(i, tool)} IN
    [p \in DOMAIN f \cup made |-> IF p \in made THEN Dir ELSE f[p]]

\* whether process.cwd() and process.chdir(dir) find the directory
DirExists(f, dir) == dir = ServerCwd \/ dir \in DOMAIN f

NewProjectInvocation(tool) ==
    [tool |-> tool, pc |-> "start", originalCwd |-> << >>, written |-> 0,
     outcome |-> "none", result |-> "none"]

\* const originalCwd = process.cwd(); try { await fs.mkdir(..., { recursive: true })
\* process.cwd() throws ENOENT when the working directory has been removed;
\* that is before the try block, so the handler rejects at once
MakeProjectDir(i) ==
    /\ inv[i].pc = "start"
    /\ IF DirExists(fs, cwd)
       THEN /\ fs' = MkdirProject(fs, i, inv[i].tool)
            /\ inv' = [inv EXCEPT ![i].pc = "writing", ![i].originalCwd = cwd]
       ELSE /\ fs' = fs
            /\ inv' = [inv EXCEPT ![i].pc = "done", ![i].result = "cwd threw"]
    /\ UNCHANGED cwd

\* await fs.writeFile(...), three times; after the last one the handler goes on
\* to process.chdir(tempProjectDir) and launches executeSfCommand
WriteProjectFile(i) ==
    /\ inv[i].pc = "writing"
    /\ LET k == inv[i].written + 1
           paths == ProjectFiles(i, inv[i].tool) IN
       /\ fs' = WriteFile(fs, paths[k], File)
       /\ IF k = Len(paths)
          THEN /\ cwd' = tempProjectDir(i)
               /\ inv' = [inv EXCEPT ![i].written = k, ![i].pc = "running"]
          ELSE /\ cwd' = cwd
               /\ inv' = [inv EXCEPT ![i].written = k]

\* finally { process.chdir(originalCwd); ...: chdir is synchronous and throws
\* ENOENT when the directory is gone, which leaves the finally block before
\* fs.rm is called
EnterFinally(i, outcome) ==
    IF DirExists(fs, inv[i].originalCwd)
    THEN /\ cwd' = inv[i].originalCwd
         /\ inv' = [inv EXCEPT ![i].pc = "rm", ![i].outcome = outcome]
    ELSE /\ cwd' = cwd
         /\ inv' = [inv EXCEPT ![i].pc = "done", ![i].outcome = outcome,
                               ![i].result = "chdir threw"]

\* a writeFile rejects (the disk is full, say): control passes to the finally block
ProjectWriteFails(i) ==
    /\ inv[i].pc = "writing"
    /\ EnterFinally(i, "Failure")
    /\ UNCHANGED fs

\* executeSfCommand settles, resolved or rejected; the finally block runs
DeploySettles(i) ==
    /\ inv[i].pc = "running"
    /\ \E outcome \in {"Success", "Failure"} : EnterFinally(i, outcome)
    /\ UNCHANGED fs

\* await fs.rm(tempProjectDir, { recursive: true, force: true }) } and the
\* handler returns or rethrows
RemoveProjectDir(i) ==
    /\ inv[i].pc = "rm"
    /\ fs' = Remove(fs, tempProjectDir(i))
    /\ inv' = [inv EXCEPT ![i].pc = "done",
                          ![i].result = IF inv[i].outcome = "Success" THEN "returned" ELSE "threw"]
    /\ UNCHANGED cwd

----------------------------------------------------------------------------
(* Specifications *)

ExecNext ==
    \/ ExecLaunch /\ UNCHANGED <<manifestVars, apexVars>>
    \/ ExecExitZero /\ UNCHANGED <<manifestVars, apexVars>>
    \/ ExecExitNonZero /\ UNCHANGED <<manifestVars, apexVars>>
    \/ ExecSpawnFailure /\ UNCHANGED <<manifestVars, apexVars>>

\* before the call: nothing launched, nothing settled
ExecInit ==
    /\ callPc = "idle"
    /\ execCalls = 0
    /\ proc = IdleProc
    /\ settleCalls = << >>
    /\ files = << >>
    /\ mreq = NoRequest
    /\ mres = NoResult
    /\ parsedXml = NotParsed
    /\ modified = FALSE
    /\ summary = << >>
    /\ log = << >>
    /\ inherited = << >>
    /\ fs = << >>
    /\ inv = << >>
    /\ cwd = ServerCwd

\* one executeSfCommand call against every output the external process can produce
SpecExec == ExecInit /\ [][ExecNext]_vars

ManifestNext ==
    \/ FilterManifest /\ UNCHANGED <<execVars, apexVars>>
    \/ GetManifestSummary /\ UNCHANGED <<execVars, apexVars>>
    \/ RetrieveFilteredMetadata /\ UNCHANGED <<execVars, apexVars>>

\* a manifest left on disk (or none) and no request served yet
ManifestInit ==
    /\ \E doc \in SourceDocs \cup {NoFile} :
          files = IF doc = NoFile THEN << >> ELSE [p \in {PackageXmlPath} |-> doc]
    /\ mreq = NoRequest
    /\ mres = NoResult
    /\ parsedXml = NotParsed
    /\ modified = FALSE
    /\ summary = << >>
    /\ log = << >>
    /\ inherited = << >>
    /\ callPc = "idle"
    /\ execCalls = 0
    /\ proc = IdleProc
    /\ settleCalls = << >>
    /\ fs = << >>
    /\ inv = << >>
    /\ cwd = ServerCwd

\* one manifest tool request against every manifest on disk
SpecManifest == ManifestInit /\ [][ManifestNext]_vars

SummaryNext ==
    \/ GetManifestSummary /\ UNCHANGED <<execVars, apexVars>>

\* a generated manifest left on disk (or none) and no request served yet
SummaryInit ==
    /\ \E doc \in LargeDocs \cup {NoFile} :
          files = IF doc = NoFile THEN << >> ELSE [p \in {PackageXmlPath} |-> doc]
    /\ mreq = NoRequest
    /\ mres = NoResult
    /\ parsedXml = NotParsed
    /\ modified = FALSE
    /\ summary = << >>
    /\ log = << >>
    /\ inherited = << >>
    /\ callPc = "idle"
    /\ execCalls = 0
    /\ proc = IdleProc
    /\ settleCalls = << >>
    /\ fs = << >>
    /\ inv = << >>
    /\ cwd = ServerCwd

\* one getManifestSummary request against every generated manifest
SpecSummary == SummaryInit /\ [][SummaryNext]_vars

GenerateNext ==
    \/ GenerateManifest /\ UNCHANGED <<execVars, apexVars>>
    \/ RetrieveApexClasses /\ UNCHANGED <<execVars, apexVars>>

\* a manifest an earlier run left in the output directory
StaleManifest ==
    XmlDoc("Package", <<[name |-> <<"ApexClass">>, members |-> <<"A", "B">>]>>, <<"59.0">>)

\* the output directory is empty or holds an earlier manifest
GenerateInit ==
    /\ files \in {<< >>, [p \in {PackageXmlPath} |-> StaleManifest]}
    /\ mreq = NoRequest
    /\ mres = NoResult
    /\ parsedXml = NotParsed
    /\ modified = FALSE
    /\ summary = << >>
    /\ log = << >>
    /\ inherited = << >>
    /\ callPc = "idle"
    /\ execCalls = 0
    /\ proc = IdleProc
    /\ settleCalls = << >>
    /\ fs = << >>
    /\ inv = << >>
    /\ cwd = ServerCwd

\* one generateManifest or retrieveApexClasses request against every manifest
\* the generate command can leave
SpecGenerate == GenerateInit /\ [][GenerateNext]_vars

ApexNext ==
    \/ \E i \in Invocations : WriteTempFile(i) /\ UNCHANGED <<execVars, manifestVars, cwd>>
    \/ \E i \in Invocations : MakeClassesDir(i) /\ UNCHANGED <<execVars, manifestVars, cwd>>
    \/ \E i \in Invocations : WriteClassFile(i) /\ UNCHANGED <<execVars, manifestVars, cwd>>
    \/ \E i \in Invocations : WriteMetaFile(i) /\ UNCHANGED <<execVars, manifestVars, cwd>>
    \/ \E i \in Invocations : WriteFails(i) /\ UNCHANGED <<execVars, manifestVars, cwd>>
    \/ \E i \in Invocations : LaunchCommand(i) /\ UNCHANGED <<execVars, manifestVars, cwd>>
    \/ \E i \in Invocations : CommandReads(i) /\ UNCHANGED <<execVars, manifestVars, cwd>>
    \/ \E i \in Invocations : CommandSucceeds(i) /\ UNCHANGED <<execVars, manifestVars, cwd>>
    \/ \E i \in Invocations : CommandFails(i) /\ UNCHANGED <<execVars, manifestVars, cwd>>
    \/ \E i \in Invocations : UnlinkTempFile(i) /\ UNCHANGED <<execVars, manifestVars, cwd>>
    \/ \E i \in Invocations : UnlinkFails(i) /\ UNCHANGED <<execVars, manifestVars, cwd>>
    \/ \E i \in Invocations : RemoveTempDir(i) /\ UNCHANGED <<execVars, manifestVars, cwd>>

\* the invocations have been received, no temp file exists yet
ApexInit ==
    /\ fs = << >>
    /\ inv \in [Invocations -> {NewInvocation(t, c) : t \in ApexTools, c \in ClassNames}]
    /\ cwd = ServerCwd
    /\ callPc = "idle"
    /\ execCalls = 0
    /\ proc = IdleProc
    /\ settleCalls = << >>
    /\ files = << >>
    /\ mreq = NoRequest
    /\ mres = NoResult
    /\ parsedXml = NotParsed
    /\ modified = FALSE
    /\ summary = << >>
    /\ log = << >>
    /\ inherited = << >>

\* tool invocations of the Apex tools, interleaved at their awaits
SpecApex == ApexInit /\ [][ApexNext]_vars

ChdirNext ==
    \/ \E i \in Invocations : MakeProjectDir(i) /\ UNCHANGED <<execVars, manifestVars>>
    \/ \E i \in Invocations : WriteProjectFile(i) /\ UNCHANGED <<execVars, manifestVars>>
    \/ \E i \in Invocations : ProjectWriteFails(i) /\ UNCHANGED <<execVars, manifestVars>>
    \/ \E i \in Invocations : DeploySettles(i) /\ UNCHANGED <<execVars, manifestVars>>
    \/ \E i \in Invocations : RemoveProjectDir(i) /\ UNCHANGED <<execVars, manifestVars>>

\* the invocations have been received, the server is in its start directory
ChdirInit ==
    /\ fs = << >>
    /\ inv \in [Invocations -> {NewProjectInvocation(t) : t \in ChdirTools}]
    /\ cwd = ServerCwd
    /\ callPc = "idle"
    /\ execCalls = 0
    /\ proc = IdleProc
    /\ settleCalls = << >>
    /\ files = << >>
    /\ mreq = NoRequest
    /\ mres = NoResult
    /\ parsedXml = NotParsed
    /\ modified = FALSE
    /\ summary = << >>
    /\ log = << >>
    /\ inherited = << >>

\* invocations of the project-building Apex tools, interleaved at their awaits
SpecChdir == ChdirInit /\ [][ChdirNext]_vars

----------------------------------------------------------------------------
(* Claims about executeSfCommand, checked under SpecExec *)

Settled == callPc = "settled"
Outcome == PromiseOutcome(settleCalls)
FailedRun == proc.error.present

\* the error text is a JSON object with a non-empty message member
IsStructuredError(text) ==
    LET p == JSONParse(text) IN
    p.ok /\ p.value.t = "object" /\ p.value.hasMessage /\ p.value.message # EmptyText

StructuredMessage(text) == JSONParse(text).value.message

\* C1: after a non-zero exit or a launch failure, an error text that is a
\* structured error document with a non-empty message m gives Failure(m),
\* whatever standard output holds.
C1_StructuredFailure ==
    (Settled /\ FailedRun /\ IsStructuredError(proc.stderr))
        => Outcome = Failure(StructuredMessage(proc.stderr))

C1_Witness ==
    /\ Settled /\ FailedRun
    /\ proc.stderr = <<WS, MsgObject>>
    /\ proc.stdout = <<StrLiteral>>
    /\ Outcome = Failure(<<"INVALID_SESSION_ID">>)

\* C2 as stated: after a non-zero exit or a launch failure, an error text that
\* is not a structured error document gives Failure(raw error text).
C2_RawErrorText ==
    (Settled /\ FailedRun /\ ~IsStructuredError(proc.stderr))
        => Outcome = Failure(proc.stderr)

\* C2 amended: after a non-zero exit or a launch failure without a structured
\* message the call ends in Failure; its message is the raw error text only
\* when that text is valid JSON other than null, and otherwise it is the
\* message of exec's own error (the "Command failed: <command>" line followed
\* by the raw error text, or the launch error's message).
C2_ExecErrorFallback ==
    (Settled /\ FailedRun /\ ~IsStructuredError(proc.stderr))
        => Outcome = Failure(IF JSONParse(proc.stderr).ok
                                    /\ JSONParse(proc.stderr).value.t # "null"
                                THEN proc.stderr
                                ELSE proc.error.message)

C2_Witness ==
    /\ Settled /\ FailedRun
    /\ proc.stderr = <<Plain>>
    /\ Outcome = Failure(<<"Command failed: sf\n", Plain>>)

\* C3: a successful exit with error text and empty standard output is always
\* a Failure, carrying the structured message when there is one and the raw
\* error text otherwise; never a Success.
C3_StderrOnlyFails ==
    (Settled /\ ~FailedRun /\ proc.stderr # EmptyText /\ proc.stdout = EmptyText)
        => Outcome = Failure(IF IsStructuredError(proc.stderr)
                                THEN StructuredMessage(proc.stderr)
                                ELSE proc.stderr)

C3_Witness ==
    /\ Settled /\ ~FailedRun
    /\ proc.stdout = EmptyText
    /\ proc.stderr = <<Plain, WS>>
    /\ Outcome = Failure(<<Plain, WS>>)

C5_ParsedOutputSucceeds ==
    (Settled /\ ~FailedRun /\ proc.stdout # EmptyText /\ JSONParse(proc.stdout).ok)
        => Outcome = Success(JSONParse(proc.stdout).value)

C5_Witness ==
    /\ Settled /\ ~FailedRun
    /\ proc.stdout = <<EmptyObject, WS>>
    /\ proc.stderr = <<Plain>>
    /\ Outcome = Success(JsonObject(FALSE, EmptyText))

\* C6: a call launches exactly one external command and its callback settles
\* the promise exactly once, as Success or Failure, and only once the process
\* has terminated (or could not be started); while the process runs the call
\* is not settled.
C6_OneProcessOneSettlement ==
    /\ execCalls = (IF callPc = "idle" THEN 0 ELSE 1)
    /\ proc.state = "running" => settleCalls = << >>
    /\ Settled <=> settleCalls # << >>
    /\ Settled => /\ Len(settleCalls) = 1
                  /\ Outcome.kind \in {"Success", "Failure"}
                  /\ proc.state \in {"exited", "launchFailed"}

C6_Witness ==
    /\ Settled
    /\ execCalls = 1
    /\ proc.state = "exited"
    /\ FailedRun
    /\ Outcome.kind = "Failure"

----------------------------------------------------------------------------
(* Claims about filterManifest, checked under SpecManifest *)

Range(arr) == {arr[i] : i \in DOMAIN arr}

IsPrefixOf(a, b) == Len(a) <= Len(b) /\ a = SubSeq(b, 1, Len(a))

\* positions of the entries whose name is one of the names, in document order
RECURSIVE KeptPositions(_, _, _)
KeptPositions(types, names, from) ==
    IF from > Len(types) THEN << >>
    ELSE IF types[from].name # << >> /\ types[from].name[1] \in names
         THEN <<from>> \o KeptPositions(types, names, from + 1)
         ELSE KeptPositions(types, names, from + 1)

\* the step in which filterManifest returns a filtered manifest
FilterSucceeds ==
    mres.status = "none" /\ mreq'.tool = "filterManifest" /\ mres'.status = "ok"

\* the <types> elements of the manifest the request reads, before the step
SourceTypes == files[mreq'.manifestPath].types

\* C8: the filtered document holds exactly the source entries whose name is
\* requested, in their original order (each with a prefix of its members);
\* every other entry is absent, a requested name the source lacks adds no
\* entry and no error, and that document is what is written.
C8_Retention ==
    [][FilterSucceeds =>
        LET kept == KeptPositions(SourceTypes, Range(mreq'.metadataTypes), 1) IN
        /\ Len(mres'.types) = Len(kept)
        /\ \A k \in DOMAIN kept :
              /\ mres'.types[k].name = SourceTypes[kept[k]].name
              /\ IsPrefixOf(mres'.types[k].members, SourceTypes[kept[k]].members)
        /\ files'[mres'.outPath].types = mres'.types]_vars

\* a two-entry manifest of which only the second entry is requested, together
\* with a name the manifest does not have
C8_Witness ==
    /\ mres.status = "ok"
    /\ mreq.metadataTypes = <<"ApexClass", "CustomObject">>
    /\ files[PackageXmlPath].types = <<[name |-> << >>, members |-> <<"A">>],
                                       [name |-> <<"CustomObject">>, members |-> <<"A", "B">>]>>
    /\ mres.types = <<[name |-> <<"CustomObject">>, members |-> <<"A", "B">>]>>
    /\ files[mres.outPath].types = mres.types

\* C9: with a quota that is not negative, a retained entry with more members
\* than the quota keeps exactly its first maxItemsPerType members, and a
\* retained entry with at most that many keeps its member list unchanged.
C9_Truncation ==
    [][(FilterSucceeds /\ EffectiveMax(mreq') >= 0) =>
        LET kept == KeptPositions(SourceTypes, Range(mreq'.metadataTypes), 1)
            max == EffectiveMax(mreq')
        IN \A k \in DOMAIN kept :
              LET original == SourceTypes[kept[k]].members IN
              /\ k \in DOMAIN mres'.types
              /\ IF Len(original) > max
                 THEN /\ Len(mres'.types[k].members) = max
                      /\ mres'.types[k].members = SubSeq(original, 1, max)
                 ELSE mres'.types[k].members = original]_vars

C9_Witness ==
    /\ mres.status = "ok"
    /\ mreq.hasMax /\ mreq.maxItemsPerType = 2
    /\ files[PackageXmlPath].types = <<[name |-> <<"ApexClass">>, members |-> <<"A", "B", "C">>],
                                       [name |-> <<"CustomObject">>, members |-> <<"A", "B">>]>>
    /\ mres.types = <<[name |-> <<"ApexClass">>, members |-> <<"A", "B">>],
                      [name |-> <<"CustomObject">>, members |-> <<"A", "B">>]>>

\* C10: a filter request with maxItemsPerType <= 0 fails and writes no
\* filtered manifest.
C10_InvalidFilterSpec ==
    (mreq.tool = "filterManifest" /\ mreq.hasMax /\ mreq.maxItemsPerType <= 0)
        => /\ mres.status = "error"
           /\ DOMAIN files \subseteq {mreq.manifestPath}

----------------------------------------------------------------------------
(* Claims about concurrent tool invocations, checked under SpecApex *)

\* the files invocation i wrote for its command
OwnFiles(i) ==
    IF inv[i].tool = "execute_anonymous_apex"
    THEN {<<tempFilePath, InputOf(i)>>}
    ELSE {<<classPath(inv[i].className), InputOf(i)>>, <<metaPath(inv[i].className), MetaContent>>}

\* C7: concurrent invocations are independent: from the moment an invocation
\* has written its files until its command has read them, the files hold that
\* invocation's own input (no other invocation replaced or removed them), and
\* what the command reads is exactly the invocation's own files.
C7_Independent ==
    \A i \in Invocations :
        /\ (inv[i].pc \in {"written", "running"} /\ ~inv[i].hasRead)
              => OwnFiles(i) \subseteq CommandInput(fs, inv[i].tool)
        /\ inv[i].hasRead => inv[i].seen = OwnFiles(i)

----------------------------------------------------------------------------
(* Claims about the generated manifest, checked under SpecGenerate *)

\* C11: no manifest operation changes the document it parsed: when the handler
\* ends, the parsed document has the type entries and member lists it had
\* right after parsing.
C11_InputNotMutated == parsedXml.after = parsedXml.before

\* auto-limit has run on a document that has entries, with a quota that is not negative
AutoLimited ==
    /\ mreq.tool = "generateManifest" /\ mres.status = "ok"
    /\ parsedXml.before # << >>
    /\ EffectiveMaxItems(mreq) >= 0

\* every entry keeps exactly its first maxItems members, whatever its name
AllTruncated ==
    /\ Len(parsedXml.after) = Len(parsedXml.before)
    /\ \A i \in DOMAIN parsedXml.before :
          /\ parsedXml.after[i].name = parsedXml.before[i].name
          /\ parsedXml.after[i].members =
                SubSeq(parsedXml.before[i].members, 1,
                       Min(EffectiveMaxItems(mreq), Len(parsedXml.before[i].members)))

\* C12 as stated: auto-limit truncates every entry to its first maxItems
\* members, and for each entry the modified flag tells whether that entry had
\* more than maxItems members.
C12_PerEntryFlag ==
    AutoLimited =>
        /\ AllTruncated
        /\ \A i \in DOMAIN parsedXml.before :
              modified <=> Len(parsedXml.before[i].members) > EffectiveMaxItems(mreq)

\* C12 amended: auto-limit truncates every entry to its first maxItems
\* members; its modified flag is one flag for the document, true exactly when
\* at least one entry had more than maxItems members, and the manifest is
\* rewritten in place exactly then.
C12_DocumentFlag ==
    AutoLimited =>
        /\ AllTruncated
        /\ modified <=> \E i \in DOMAIN parsedXml.before :
                           Len(parsedXml.before[i].members) > EffectiveMaxItems(mreq)
        /\ modified <=> WriteFileSyncCall(PackageXmlPath) \in Range(log)
        /\ modified => files[PackageXmlPath].types = parsedXml.after

\* the manifest [ApexClass: A B C D E] limited to 3
C12_Witness ==
    /\ AutoLimited
    /\ mreq.hasMax /\ mreq.maxItemsPerType = 3
    /\ parsedXml.before = <<[name |-> <<"ApexClass">>, members |-> <<"A", "B", "C", "D", "E">>]>>
    /\ parsedXml.after = <<[name |-> <<"ApexClass">>, members |-> <<"A", "B", "C">>]>>
    /\ modified

\* the manifest a served request read is not one: its text is not XML, or it
\* has no Package root, or no types collection
ReadUnparseable ==
    /\ mreq.tool \in {"getManifestSummary", "filterManifest", "generateManifest",
                      "retrieveApexClasses"}
    /\ mres.status # "none"
    /\ mres.error # "Command failed"
    /\ mreq.manifestPath \in DOMAIN files
    /\ ~ManifestParse(files[mreq.manifestPath]).ok

\* C17: in every manifest operation a manifest that cannot be parsed ends the
\* operation in an error, with no manifest file written and no command
\* launched after the read.
C17_ParseErrorAborts ==
    ReadUnparseable =>
        /\ mres.status = "error"
        /\ \A k \in DOMAIN log :
              /\ log[k].call # "writeFileSync"
              /\ log[k].call = "execSync" => (k = 1 /\ log[k] = ExecSyncCall(GenerateCommand))

----------------------------------------------------------------------------
(* Claims about the manifest on disk, checked under SpecManifest *)

\* a filtered manifest has been written
Filtered == mreq.tool = "filterManifest" /\ mres.status = "ok"

\* the same request, served again on the manifest the first run wrote
FilteredAgain == filterManifest(files, [mreq EXCEPT !.manifestPath = mres.outPath])

\* C13: filtering a filtered manifest again with the same request gives the
\* same manifest (types, members, order, version) whenever every requested
\* name is a type of the filtered manifest, the empty list of names included.
C13_Idempotent ==
    (Filtered /\ Range(mreq.metadataTypes) \subseteq {TypeName(t) : t \in Range(mres.types)})
        => /\ FilteredAgain.res.status = "ok"
           /\ FilteredAgain.res.types = mres.types
           /\ FilteredAgain.files[FilteredAgain.res.outPath] = files[mres.outPath]

\* C14: a manifest document with a version and any sequence of type entries
\* (none included), once serialized, parses back to an equal document: same
\* types, members, order and version.
C14_RoundTrip ==
    (Filtered /\ mres.version # << >>)
        => LET back == ManifestParse(files[mres.outPath]) IN
           /\ back.ok
           /\ back.types = mres.types
           /\ back.version = mres.version

\* filterManifest has been served with no requested name, on a manifest that
\* parses (the manifest read is still on disk: the output goes to another path)
FilteredWithoutNames ==
    /\ mreq.tool = "filterManifest" /\ mres.status # "none"
    /\ mreq.metadataTypes = << >>
    /\ mreq.manifestPath \in DOMAIN files
    /\ ManifestParse(files[mreq.manifestPath]).ok

ServedUnparseable ==
    /\ mreq.tool \in {"getManifestSummary", "filterManifest"}
    /\ mres.status # "none"
    /\ mreq.manifestPath \in DOMAIN files
    /\ \/ files[mreq.manifestPath].kind # "xml"
       \/ files[mreq.manifestPath].root # "Package"
       \/ files[mreq.manifestPath].types = << >>

\* C16: a manifest that is malformed or lacks the Package root or the types
\* collection fails to parse, and getManifestSummary and filterManifest then
\* end in that error with no summary and no filtered document.
C16_ParseError ==
    ServedUnparseable =>
        /\ mres.status = "error"
        /\ mres.error \in {"XML parse error", "Invalid package.xml format"}
        /\ mres.types = << >>
        /\ summary = << >>
        /\ log = << >>
        /\ DOMAIN files = {mreq.manifestPath}

C16_Witness ==
    /\ mreq.tool = "getManifestSummary"
    /\ PackageXmlPath \in DOMAIN files
    /\ files[PackageXmlPath] = XmlDoc("Package", << >>, <<"59.0">>)
    /\ mres.error = "Invalid package.xml format"
    /\ summary = << >>

\* a tool has been served a manifest path that does not exist
ServedMissingManifest ==
    /\ mreq.tool \in {"getManifestSummary", "filterManifest", "retrieveFilteredMetadata"}
    /\ mres.status # "none"
    /\ mreq.manifestPath \notin DOMAIN files

\* C18: when the manifest path given to getManifestSummary, filterManifest or
\* retrieveFilteredMetadata does not exist, the operation ends in an error
\* and has written no file (no filtered manifest, no sfdx-project.json) and
\* launched no command.
C18_MissingManifest ==
    ServedMissingManifest =>
        /\ mres.status = "error"
        /\ mres.error = "Manifest file not found"
        /\ log = << >>
        /\ mreq.tool # "retrieveFilteredMetadata" => DOMAIN files \subseteq {PackageXmlPath}

C18_Witness ==
    /\ mreq.tool = "retrieveFilteredMetadata"
    /\ mreq.manifestPath = OutXmlPath
    /\ mres.error = "Manifest file not found"
    /\ PackageXmlPath \in DOMAIN files
    /\ SfdxProjectPath \notin DOMAIN files

----------------------------------------------------------------------------
(* Claims about getManifestSummary, checked under SpecSummary *)

Summarised == mreq.tool = "getManifestSummary" /\ mres.status = "ok"

\* C19: the summary has one item per type entry of the manifest, in document
\* order, and each item's memberCount is the full length of the entry's member
\* list (0 for an entry without members), whatever the samples show.
C19_OneItemPerType ==
    Summarised =>
        LET types == files[mreq.manifestPath].types IN
        /\ Len(summary) = Len(types)
        /\ \A i \in DOMAIN types :
              /\ summary[i].name = TypeName(types[i])
              /\ summary[i].memberCount = Len(types[i].members)

C19_Witness ==
    /\ Summarised
    /\ files[PackageXmlPath].types =
          <<[name |-> <<"CustomObject">>, members |-> <<"A", "B", "C", "D", "E">>],
            [name |-> <<"ApexClass">>, members |-> << >>]>>
    /\ summary[1].name = "CustomObject" /\ summary[1].memberCount = 5
    /\ summary[2].name = "ApexClass" /\ summary[2].memberCount = 0

\* C20: an item's sampleMembers are the first min(3, n) members of the entry,
\* in their original order, and never more than 3.
C20_Samples ==
    Summarised =>
        LET types == files[mreq.manifestPath].types IN
        \A i \in DOMAIN types :
            /\ i \in DOMAIN summary
            /\ Len(summary[i].sampleMembers) <= 3
            /\ summary[i].sampleMembers =
                  SubSeq(types[i].members, 1, Min(3, Len(types[i].members)))

C20_Witness ==
    /\ Summarised
    /\ files[PackageXmlPath].types =
          <<[name |-> <<"ApexClass">>, members |-> <<"A", "B", "C", "D">>],
            [name |-> <<"CustomObject">>, members |-> <<"A", "B">>]>>
    /\ summary[1].sampleMembers = <<"A", "B", "C">>
    /\ summary[2].sampleMembers = <<"A", "B">>

\* C21: in the summary report totalItems is the sum of the memberCount of all
\* summary items, which is the number of members of the whole manifest and not
\* of the samples, and the number of metadata types reported is the number of
\* type entries of the manifest.
C21_Totals ==
    Summarised =>
        LET types == files[mreq.manifestPath].types IN
        /\ mres.totalItems = SumSeq([i \in DOMAIN summary |-> summary[i].memberCount])
        /\ mres.totalItems = SumSeq([i \in DOMAIN types |-> Len(types[i].members)])
        /\ mres.totalTypes = Len(types)

C21_Witness ==
    /\ Summarised
    /\ files[PackageXmlPath].types =
          <<[name |-> <<"ApexClass">>, members |-> <<"A", "B", "C", "D", "E">>],
            [name |-> <<"CustomObject">>, members |-> <<"A", "B", "C", "D">>]>>
    /\ mres.totalItems = 9
    /\ mres.totalTypes = 2

----------------------------------------------------------------------------
(* Claims about failures of the external command of a manifest tool *)

\* the text a occurs in the text b, fragment by fragment
Contains(b, a) ==
    \E k \in 0..(Len(b) - Len(a)) : SubSeq(b, k + 1, k + Len(a)) = a

\* C22: when the external command of a tool operation fails with diagnostic
\* text m on its error channel, the failure description returned to the caller
\* contains m unchanged.
C22_DiagnosticsPreserved ==
    (mres.status = "error" /\ mres.error = "Command failed" /\ inherited # << >>)
        => Contains(mres.message, inherited)

\* the command whose failure ended the request, as the thrown error names it
FailedCommand == SubSeq(mres.message, 3, Len(mres.message))

\* C23: no operation retries: within one invocation no external command is
\* launched twice, and the command that failed is the last call the
\* invocation makes.
C23_NoRetry ==
    /\ \A j, k \in DOMAIN log :
          (j < k /\ log[j].call = "execSync" /\ log[k].call = "execSync")
              => log[j].arg # log[k].arg
    /\ mres.error = "Command failed" =>
          /\ log # << >>
          /\ log[Len(log)] = ExecSyncCall(FailedCommand)

\* retrieveApexClasses whose generate command failed: no retrieve follows
C23_Witness ==
    /\ mreq.tool = "retrieveApexClasses"
    /\ mres.error = "Command failed"
    /\ FailedCommand = GenerateCommand
    /\ log = <<ExecSyncCall(GenerateCommand)>>

----------------------------------------------------------------------------
(* Claims about the default quota, checked under SpecManifest *)

\* the step in which filterManifest is served a request without maxItemsPerType
FilterWithoutQuota ==
    mres.status = "none" /\ mreq'.tool = "filterManifest" /\ ~mreq'.hasMax

\* C24: filterManifest without maxItemsPerType gives what the same call with
\* maxItemsPerType = 500 gives (result and files written), so no entry of its
\* output has more than 500 members.
C24_DefaultQuota ==
    [][FilterWithoutQuota =>
        LET explicit == filterManifest(files, [mreq' EXCEPT !.hasMax = TRUE,
                                                            !.maxItemsPerType = 500])
        IN /\ mres' = Rethrow("Failed to filter manifest: ", explicit.res)
           /\ files' = explicit.files
           /\ \A i \in DOMAIN mres'.types : Len(mres'.types[i].members) <= 500]_vars

\* a type of 501 members filtered without a quota keeps 500
C24_Witness ==
    /\ Filtered /\ ~mreq.hasMax
    /\ PackageXmlPath \in DOMAIN files
    /\ files[PackageXmlPath] = OverQuotaDoc
    /\ Len(mres.types) = 1
    /\ Len(mres.types[1].members) = 500
    /\ mres.totalItems = 500

----------------------------------------------------------------------------
(* Claims relating auto-limit to filterManifest, checked under SpecGenerate *)

\* generateManifest has run auto-limit on the manifest its command left
AutoLimitRan ==
    /\ mreq.tool = "generateManifest" /\ mres.status # "none"
    /\ mres.error \notin {"Command failed", "Failed to generate package.xml file"}

\* the manifest auto-limit read: the one on disk, as it was before a rewrite
AutoLimitSource ==
    IF modified
    THEN XmlDoc("Package", parsedXml.before, files[PackageXmlPath].version)
    ELSE files[PackageXmlPath]

\* a manifest document: a text the handlers parse into a document (a Package
\* with type entries) that has a version and whose entries all have a name
IsManifestDocument(doc) ==
    /\ ManifestParse(doc).ok
    /\ doc.version # << >>
    /\ \A i \in DOMAIN doc.types : doc.types[i].name # << >>

\* filterManifest on the same manifest, asked for all its type names with
\* auto-limit's quota
FilterAllNames ==
    filterManifest([p \in {PackageXmlPath} |-> AutoLimitSource],
                   [Request("filterManifest", PackageXmlPath) EXCEPT
                       !.metadataTypes = [i \in DOMAIN AutoLimitSource.types |->
                                             TypeName(AutoLimitSource.types[i])],
                       !.outputPath = OutXmlPath,
                       !.hasMax = TRUE,
                       !.maxItemsPerType = EffectiveMaxItems(mreq)])

\* C25: for every manifest document and quota, auto-limit leaves the document
\* that filterManifest writes when asked for all type names of the document
\* with the same quota: same entries in the same order, none dropped, entries
\* without members included.
C25_SameAsFilter ==
    (AutoLimitRan /\ IsManifestDocument(AutoLimitSource))
        => /\ mres.status = "ok"
           /\ FilterAllNames.res.status = "ok"
           /\ FilterAllNames.files[OutXmlPath] = files[PackageXmlPath]
           /\ Len(files[PackageXmlPath].types) = Len(AutoLimitSource.types)

\* quota 0 on [ApexClass: A B] [CustomObject: none]: both entries stay, empty
C25_Witness ==
    /\ AutoLimitRan /\ modified
    /\ mreq.hasMax /\ mreq.maxItemsPerType = 0
    /\ parsedXml.before = <<[name |-> <<"ApexClass">>, members |-> <<"A", "B">>],
                             [name |-> <<"CustomObject">>, members |-> << >>]>>
    /\ files[PackageXmlPath] =
          XmlDoc("Package", <<[name |-> <<"ApexClass">>, members |-> << >>],
                              [name |-> <<"CustomObject">>, members |-> << >>]>>, <<"59.0">>)
    /\ FilterAllNames.files[OutXmlPath] = files[PackageXmlPath]

----------------------------------------------------------------------------
(* Claims about the retrieveApexClasses workflow, checked under SpecGenerate *)

ApexRetrieval == mreq.tool = "retrieveApexClasses" /\ mres.status # "none"

RetrieveLaunched == \E k \in DOMAIN log : log[k] = ExecSyncCall(RetrieveCommand(FilteredPath))

\* the parsed entries with the ApexClass entry cut to its first maxClasses members
CutToMaxClasses ==
    LET at == FindApexType(parsedXml.before, 1) IN
    [i \in DOMAIN parsedXml.before |->
        IF i = at
        THEN [parsedXml.before[i] EXCEPT
                !.members = SubSeq(@, 1, Min(EffectiveMaxClasses(mreq), Len(@)))]
        ELSE parsedXml.before[i]]

\* C26: retrieveApexClasses runs generate, limit, retrieve in that order: the
\* generate command is its first call; the retrieve command is launched only
\* as the call after the limited manifest (ApexClass members cut to the first
\* maxClasses, maxClasses not negative) has been written, which follows the
\* generate command; and when the generate command, the read or the parse
\* failed, nothing is written and no retrieve command is launched.
C26_Workflow ==
    ApexRetrieval =>
        /\ log # << >> /\ log[1] = ExecSyncCall(GenerateCommand)
        /\ RetrieveLaunched =>
              /\ log = <<ExecSyncCall(GenerateCommand), WriteFileSyncCall(FilteredPath),
                          ExecSyncCall(RetrieveCommand(FilteredPath))>>
              /\ FilteredPath \in DOMAIN files
              /\ (EffectiveMaxClasses(mreq) >= 0 /\ files[FilteredPath].root = "Package")
                    => files[FilteredPath].types = CutToMaxClasses
        /\ (\/ mres.error = "Command failed" /\ FailedCommand = GenerateCommand
            \/ mres.error \in {"ENOENT: no such file or directory", "XML parse error"})
              => log = <<ExecSyncCall(GenerateCommand)>> /\ FilteredPath \notin DOMAIN files

C26_Witness ==
    /\ ApexRetrieval /\ mres.status = "ok"
    /\ mreq.hasMax /\ mreq.maxItemsPerType = 1
    /\ parsedXml.before = <<[name |-> <<"CustomObject">>, members |-> <<"A", "B">>],
                             [name |-> <<"ApexClass">>, members |-> <<"A", "B", "C">>]>>
    /\ files[FilteredPath].types = <<[name |-> <<"CustomObject">>, members |-> <<"A", "B">>],
                                      [name |-> <<"ApexClass">>, members |-> <<"A">>]>>
    /\ Len(log) = 3

----------------------------------------------------------------------------
(* Claims about temporary projects and the working directory, checked      *)
(* under SpecChdir                                                         *)

AllFinished == \A i \in Invocations : inv[i].pc = "done"

\* C27: once every invocation has finished, none of the temporary directories
\* and files the invocations created remains.
C27_NothingRemains == AllFinished => DOMAIN fs = {}

\* C28: once every invocation has finished, the working directory is the one
\* the server had before the first invocation started, and no invocation has
\* failed because the directory it meant to restore was gone.
C28_CwdRestored ==
    AllFinished =>
        /\ cwd = ServerCwd
        /\ \A i \in Invocations : inv[i].result # "chdir threw"

====
